---- MODULE Spec2Model ----
(***************************************************************************)
(* Model of the pgx range operators (package pro): the generic operator    *)
(* over pgtype.Range[T], instantiated for Go integers (NewInteger), and    *)
(* the accessors of the Range wrapper of range.go.                         *)
(*                                                                         *)
(* Every method of the operator is a pure function of its operands, so it  *)
(* is an operator of this module, written branch by branch as the Go code. *)
(* The state machine draws a first operand in Init; each action is one     *)
(* call of one method on it (drawing the second operand or the element     *)
(* where the method takes one) and records what the call returned.         *)
(*                                                                         *)
(* The operands store small values (Vals), on which the successor and the  *)
(* distance of the integer instance do not wrap around.  Three further     *)
(* specifications cover what that one leaves out: SpecBounds calls the     *)
(* internal comparison of two edges, SpecRange builds a Range with         *)
(* NewIntegerRange and its options and calls its setters, SpecLimits       *)
(* stores values at the limits of the int.                                 *)
(***************************************************************************)
EXTENDS Integers, FiniteSets, Sequences, TLC

(***************************************************************************)
(* Bounds of the model.                                                    *)
(***************************************************************************)
\* bound values stored in the operands are drawn from 0..MaxVal
MaxVal == 2
\* width in bits of the modelled Go int (two's complement, wraps around)
IntBits == 6

\* the values stored in the operands; with their successors they stay well
\* inside the int, so addOne and diff do not wrap on them
Vals == 0..MaxVal
\* the elements probed against a range: one below the stored values, one on
\* each value and each successor, one above
Elems == (0 - 1)..(MaxVal + 2)

(***************************************************************************)
(* Go integers: int of IntBits bits, arithmetic modulo 2^IntBits.          *)
(***************************************************************************)
MaxInt == 2 ^ (IntBits - 1) - 1
MinInt == 0 - 2 ^ (IntBits - 1)
WrapInt(x) == ((x - MinInt) % (2 ^ IntBits)) + MinInt

(***************************************************************************)
(* pgtype.BoundType: the four bound types, and the zero value of the type  *)
(* (the bound type of a zero pgtype.Range[T]{}).                           *)
(***************************************************************************)
Inclusive == "Inclusive"
Exclusive == "Exclusive"
Unbounded == "Unbounded"
EmptyType == "Empty"
ZeroBoundType == "zero"
BoundType == {Inclusive, Exclusive, Unbounded, EmptyType}

\* pgtype.Range[int]{} : the zero range returned beside an error
ZeroRange ==
    [Lower |-> 0, LowerType |-> ZeroBoundType,
     Upper |-> 0, UpperType |-> ZeroBoundType, Valid |-> FALSE]

\* the operands: every combination of stored values, bound types and validity
Ranges ==
    [Lower : Vals, LowerType : BoundType,
     Upper : Vals, UpperType : BoundType, Valid : BOOLEAN]

(***************************************************************************)
(* NewInteger: the comparator bundle of the integer instance.              *)
(***************************************************************************)
zero == 0

cmp(a, b) == IF a < b THEN 0 - 1 ELSE IF a > b THEN 1 ELSE 0

diff(a, b) == WrapInt(a - b)

addOne(a) == WrapInt(a + 1)

\* postfix of a method result: the value and the error ("" is nil)
Ret(v, e) == [val |-> v, err |-> e]

makeEmptyRange ==
    [Lower |-> 0, LowerType |-> EmptyType,
     Upper |-> 0, UpperType |-> EmptyType, Valid |-> TRUE]

(***************************************************************************)
(* Size, Empty, Rewrite.                                                   *)
(***************************************************************************)
\* the two in-place conversions shared by Size and Rewrite:
\* exclusive lower -> successor, inclusive; inclusive upper -> successor, exclusive
ConvertLower(r) ==
    IF r.LowerType = Exclusive
    THEN [r EXCEPT !.Lower = addOne(r.Lower), !.LowerType = Inclusive]
    ELSE r

ConvertUpper(r) ==
    IF r.UpperType = Inclusive
    THEN [r EXCEPT !.Upper = addOne(r.Upper), !.UpperType = Exclusive]
    ELSE r

\* mutant: the measure is computed before the checks and returned beside the error
SizeNoErrorZero(r) ==
    LET c == ConvertUpper(ConvertLower(r))
    IN  IF ~r.Valid THEN Ret(diff(c.Upper, c.Lower), "the range is not valid")
        ELSE IF r.LowerType = Unbounded \/ r.UpperType = Unbounded
        THEN Ret(diff(c.Upper, c.Lower), "the range is unbounded")
        ELSE Ret(diff(c.Upper, c.Lower), "")

\* mutant: the exclusive lower bound is not stepped to its successor
SizeLowerNotStepped(r) ==
    IF ~r.Valid THEN Ret(diff(zero, zero), "the range is not valid")
    ELSE IF r.LowerType = Unbounded \/ r.UpperType = Unbounded
    THEN Ret(diff(zero, zero), "the range is unbounded")
    ELSE Ret(diff(ConvertUpper(r).Upper, r.Lower), "")

Size(r) ==
    IF ~r.Valid THEN Ret(diff(zero, zero), "the range is not valid")
    ELSE IF r.LowerType = Unbounded \/ r.UpperType = Unbounded
    THEN Ret(diff(zero, zero), "the range is unbounded")
    ELSE LET c == ConvertUpper(ConvertLower(r))
         IN  Ret(diff(c.Upper, c.Lower), "")

Empty(r) ==
    IF ~r.Valid THEN Ret(FALSE, "range is not valid")
    ELSE IF r.LowerType = Unbounded \/ r.UpperType = Unbounded
    THEN Ret(FALSE, "")
    ELSE LET s == Size(r).val
         IN  Ret(r.LowerType = EmptyType \/ r.UpperType = EmptyType \/ s <= 0, "")

\* mutant: the exclusive lower bound is stepped but its type is left Exclusive
RewriteKeepsLowerType(r) ==
    LET l == IF r.LowerType = Exclusive
             THEN [r EXCEPT !.Lower = addOne(r.Lower)] ELSE r
        c == ConvertUpper(l)
    IN  IF Empty(c).val THEN makeEmptyRange ELSE c

\* mutant: the inclusive upper bound is not converted
RewriteLowerOnly(r) ==
    LET c == ConvertLower(r)
    IN  IF Empty(c).val THEN makeEmptyRange ELSE c

\* mutant: the inclusive upper bound is marked Exclusive without being stepped
RewriteUpperNotStepped(r) ==
    LET l == ConvertLower(r)
        c == IF l.UpperType = Inclusive THEN [l EXCEPT !.UpperType = Exclusive] ELSE l
    IN  IF Empty(c).val THEN makeEmptyRange ELSE c

Rewrite(r) ==
    LET c == ConvertUpper(ConvertLower(r))
    IN  IF Empty(c).val THEN makeEmptyRange ELSE c

LowerInf(r) == r.LowerType = Unbounded

UpperInf(r) == r.LowerType = Unbounded

(***************************************************************************)
(* compareBounds, compareRanges.                                           *)
(***************************************************************************)
\* mutant: edges at the same value tie whatever their openness and orientation
compareBoundsIgnoresOpenness(first, second, firstLower, secondLower) ==
    LET f == IF firstLower THEN first
             ELSE [first EXCEPT !.Lower = first.Upper, !.LowerType = first.UpperType]
        s == IF secondLower THEN second
             ELSE [second EXCEPT !.Lower = second.Upper, !.LowerType = second.UpperType]
    IN  IF f.LowerType = Unbounded /\ s.LowerType = Unbounded
        THEN (IF firstLower = secondLower THEN 0
              ELSE IF firstLower THEN 0 - 1 ELSE 1)
        ELSE IF f.LowerType = Unbounded
        THEN (IF firstLower THEN 0 - 1 ELSE 1)
        ELSE IF s.LowerType = Unbounded
        THEN (IF secondLower THEN 1 ELSE 0 - 1)
        ELSE cmp(f.Lower, s.Lower)

\* mutant: two Unbounded edges tie whatever their orientation
compareBoundsUnboundedTie(first, second, firstLower, secondLower) ==
    LET f == IF firstLower THEN first
             ELSE [first EXCEPT !.Lower = first.Upper, !.LowerType = first.UpperType]
        s == IF secondLower THEN second
             ELSE [second EXCEPT !.Lower = second.Upper, !.LowerType = second.UpperType]
        result == cmp(f.Lower, s.Lower)
    IN  IF f.LowerType = Unbounded /\ s.LowerType = Unbounded
        THEN 0
        ELSE IF f.LowerType = Unbounded
        THEN (IF firstLower THEN 0 - 1 ELSE 1)
        ELSE IF s.LowerType = Unbounded
        THEN (IF secondLower THEN 1 ELSE 0 - 1)
        ELSE IF result = 0
        THEN (IF f.LowerType # Inclusive /\ s.LowerType # Inclusive
              THEN (IF firstLower = secondLower THEN 0
                    ELSE IF firstLower THEN 1 ELSE 0 - 1)
              ELSE IF f.LowerType # Inclusive
              THEN (IF firstLower THEN 1 ELSE 0 - 1)
              ELSE IF s.LowerType # Inclusive
              THEN (IF secondLower THEN 0 - 1 ELSE 1)
              ELSE 0)
        ELSE result

compareBounds(first, second, firstLower, secondLower) ==
    LET f == IF firstLower THEN first
             ELSE [first EXCEPT !.Lower = first.Upper, !.LowerType = first.UpperType]
        s == IF secondLower THEN second
             ELSE [second EXCEPT !.Lower = second.Upper, !.LowerType = second.UpperType]
        result == cmp(f.Lower, s.Lower)
    IN  IF f.LowerType = Unbounded /\ s.LowerType = Unbounded
        THEN (IF firstLower = secondLower THEN 0
              ELSE IF firstLower THEN 0 - 1 ELSE 1)
        ELSE IF f.LowerType = Unbounded
        THEN (IF firstLower THEN 0 - 1 ELSE 1)
        ELSE IF s.LowerType = Unbounded
        THEN (IF secondLower THEN 1 ELSE 0 - 1)
        ELSE IF result = 0
        THEN (IF f.LowerType # Inclusive /\ s.LowerType # Inclusive
              THEN (IF firstLower = secondLower THEN 0
                    ELSE IF firstLower THEN 1 ELSE 0 - 1)
              ELSE IF f.LowerType # Inclusive
              THEN (IF firstLower THEN 1 ELSE 0 - 1)
              ELSE IF s.LowerType # Inclusive
              THEN (IF secondLower THEN 0 - 1 ELSE 1)
              ELSE 0)
        ELSE result

\* mutant: an empty range sorts after every non-empty range
compareRangesEmptyLast(first, second) ==
    LET f == Rewrite(first)
        s == Rewrite(second)
        firstEmpty == Empty(f).val
        secondEmpty == Empty(s).val
        lower == compareBounds(f, s, TRUE, TRUE)
    IN  IF firstEmpty /\ secondEmpty THEN 0
        ELSE IF firstEmpty THEN 1
        ELSE IF secondEmpty THEN 0 - 1
        ELSE IF lower = 0 THEN compareBounds(f, s, FALSE, FALSE)
        ELSE lower

compareRanges(first, second) ==
    LET f == Rewrite(first)
        s == Rewrite(second)
        firstEmpty == Empty(f).val
        secondEmpty == Empty(s).val
        lower == compareBounds(f, s, TRUE, TRUE)
    IN  IF firstEmpty /\ secondEmpty THEN 0
        ELSE IF firstEmpty THEN 0 - 1
        ELSE IF secondEmpty THEN 1
        ELSE IF lower = 0 THEN compareBounds(f, s, FALSE, FALSE)
        ELSE lower

(***************************************************************************)
(* Relational predicates.  Each returns Ret(value, error).                 *)
(***************************************************************************)
ErrFirst == "first range is not valid"
ErrSecond == "second range is not valid"

\* mutant: the validity of the second operand is not checked
EqualFirstCheckedOnly(first, second) ==
    IF ~first.Valid THEN Ret(FALSE, ErrFirst)
    ELSE LET firstEmpty == Empty(first).val
             secondEmpty == Empty(second).val
             f == Rewrite(first)
             s == Rewrite(second)
         IN  IF firstEmpty /\ secondEmpty THEN Ret(TRUE, "")
             ELSE IF firstEmpty # secondEmpty THEN Ret(FALSE, "")
             ELSE IF compareBounds(f, s, TRUE, TRUE) # 0 THEN Ret(FALSE, "")
             ELSE IF compareBounds(f, s, FALSE, FALSE) # 0 THEN Ret(FALSE, "")
             ELSE Ret(TRUE, "")

\* mutant: only the lower edges are compared
EqualLowerOnly(first, second) ==
    IF ~first.Valid THEN Ret(FALSE, ErrFirst)
    ELSE IF ~second.Valid THEN Ret(FALSE, ErrSecond)
    ELSE LET firstEmpty == Empty(first).val
             secondEmpty == Empty(second).val
             f == Rewrite(first)
             s == Rewrite(second)
         IN  IF firstEmpty /\ secondEmpty THEN Ret(TRUE, "")
             ELSE IF firstEmpty # secondEmpty THEN Ret(FALSE, "")
             ELSE IF compareBounds(f, s, TRUE, TRUE) # 0 THEN Ret(FALSE, "")
             ELSE Ret(TRUE, "")

Equal(first, second) ==
    IF ~first.Valid THEN Ret(FALSE, ErrFirst)
    ELSE IF ~second.Valid THEN Ret(FALSE, ErrSecond)
    ELSE LET firstEmpty == Empty(first).val
             secondEmpty == Empty(second).val
             f == Rewrite(first)
             s == Rewrite(second)
         IN  IF firstEmpty /\ secondEmpty THEN Ret(TRUE, "")
             ELSE IF firstEmpty # secondEmpty THEN Ret(FALSE, "")
             ELSE IF compareBounds(f, s, TRUE, TRUE) # 0 THEN Ret(FALSE, "")
             ELSE IF compareBounds(f, s, FALSE, FALSE) # 0 THEN Ret(FALSE, "")
             ELSE Ret(TRUE, "")

LessThan(first, second) ==
    IF ~first.Valid THEN Ret(FALSE, ErrFirst)
    ELSE IF ~second.Valid THEN Ret(FALSE, ErrSecond)
    ELSE Ret(compareRanges(first, second) < 0, "")

LessThanOrEqualTo(first, second) ==
    IF ~first.Valid THEN Ret(FALSE, ErrFirst)
    ELSE IF ~second.Valid THEN Ret(FALSE, ErrSecond)
    ELSE Ret(compareRanges(first, second) <= 0, "")

GreaterThan(first, second) ==
    IF ~first.Valid THEN Ret(FALSE, ErrFirst)
    ELSE IF ~second.Valid THEN Ret(FALSE, ErrSecond)
    ELSE Ret(compareRanges(first, second) > 0, "")

GreaterThanOrEqualTo(first, second) ==
    IF ~first.Valid THEN Ret(FALSE, ErrFirst)
    ELSE IF ~second.Valid THEN Ret(FALSE, ErrSecond)
    ELSE Ret(compareRanges(first, second) >= 0, "")

\* mutant: only the lower edge of the first operand is looked for in the second
OverlapFirstInsideOnly(first, second) ==
    IF ~first.Valid THEN Ret(FALSE, ErrFirst)
    ELSE IF ~second.Valid THEN Ret(FALSE, ErrSecond)
    ELSE IF Empty(first).val \/ Empty(second).val THEN Ret(FALSE, "")
    ELSE LET f == Rewrite(first)
             s == Rewrite(second)
         IN  Ret(compareBounds(f, s, TRUE, TRUE) >= 0
                 /\ compareBounds(f, s, TRUE, FALSE) <= 0, "")

Overlap(first, second) ==
    IF ~first.Valid THEN Ret(FALSE, ErrFirst)
    ELSE IF ~second.Valid THEN Ret(FALSE, ErrSecond)
    ELSE IF Empty(first).val \/ Empty(second).val THEN Ret(FALSE, "")
    ELSE LET f == Rewrite(first)
             s == Rewrite(second)
         IN  IF compareBounds(f, s, TRUE, TRUE) >= 0
                /\ compareBounds(f, s, TRUE, FALSE) <= 0
             THEN Ret(TRUE, "")
             ELSE IF compareBounds(s, f, TRUE, TRUE) >= 0
                     /\ compareBounds(s, f, TRUE, FALSE) <= 0
             THEN Ret(TRUE, "")
             ELSE Ret(FALSE, "")

\* mutant: the lower edge of the first operand is compared, not its upper edge
LeftOfByLowerEdge(first, second) ==
    IF ~first.Valid THEN Ret(FALSE, ErrFirst)
    ELSE IF ~second.Valid THEN Ret(FALSE, ErrSecond)
    ELSE IF Empty(first).val \/ Empty(second).val THEN Ret(FALSE, "")
    ELSE Ret(compareBounds(Rewrite(first), Rewrite(second), TRUE, TRUE) < 0, "")

LeftOf(first, second) ==
    IF ~first.Valid THEN Ret(FALSE, ErrFirst)
    ELSE IF ~second.Valid THEN Ret(FALSE, ErrSecond)
    ELSE IF Empty(first).val \/ Empty(second).val THEN Ret(FALSE, "")
    ELSE Ret(compareBounds(Rewrite(first), Rewrite(second), FALSE, TRUE) < 0, "")

\* mutant: the operands are not swapped
RightOfNotSwapped(first, second) == LeftOf(first, second)

RightOf(first, second) == LeftOf(second, first)

\* mutant: equal upper edges count as extending to the right
NotExtendRightStrict(first, second) ==
    IF ~first.Valid THEN Ret(FALSE, ErrFirst)
    ELSE IF ~second.Valid THEN Ret(FALSE, ErrSecond)
    ELSE IF Empty(first).val \/ Empty(second).val THEN Ret(FALSE, "")
    ELSE Ret(compareBounds(Rewrite(first), Rewrite(second), FALSE, FALSE) < 0, "")

NotExtendRight(first, second) ==
    IF ~first.Valid THEN Ret(FALSE, ErrFirst)
    ELSE IF ~second.Valid THEN Ret(FALSE, ErrSecond)
    ELSE IF Empty(first).val \/ Empty(second).val THEN Ret(FALSE, "")
    ELSE Ret(compareBounds(Rewrite(first), Rewrite(second), FALSE, FALSE) <= 0, "")

NotExtendLeft(first, second) ==
    IF ~first.Valid THEN Ret(FALSE, ErrFirst)
    ELSE IF ~second.Valid THEN Ret(FALSE, ErrSecond)
    ELSE IF Empty(first).val \/ Empty(second).val THEN Ret(FALSE, "")
    ELSE Ret(compareBounds(Rewrite(first), Rewrite(second), TRUE, TRUE) >= 0, "")

\* mutant: only the upper edge of the first operand is tried against the second
AdjacentOneWay(first, second) ==
    IF ~first.Valid THEN Ret(FALSE, ErrFirst)
    ELSE IF ~second.Valid THEN Ret(FALSE, ErrSecond)
    ELSE IF Empty(first).val \/ Empty(second).val THEN Ret(FALSE, "")
    ELSE LET f == Rewrite(first)
             s == Rewrite(second)
         IN  Ret(/\ \/ f.UpperType = Inclusive /\ s.LowerType = Exclusive
                    \/ f.UpperType = Exclusive /\ s.LowerType = Inclusive
                 /\ cmp(f.Upper, s.Lower) = 0, "")

Adjacent(first, second) ==
    IF ~first.Valid THEN Ret(FALSE, ErrFirst)
    ELSE IF ~second.Valid THEN Ret(FALSE, ErrSecond)
    ELSE IF Empty(first).val \/ Empty(second).val THEN Ret(FALSE, "")
    ELSE LET f == Rewrite(first)
             s == Rewrite(second)
         IN  IF ((f.UpperType = Inclusive /\ s.LowerType = Exclusive)
                 \/ (f.UpperType = Exclusive /\ s.LowerType = Inclusive))
                /\ cmp(f.Upper, s.Lower) = 0
             THEN Ret(TRUE, "")
             ELSE IF ((f.LowerType = Inclusive /\ s.UpperType = Exclusive)
                      \/ (f.LowerType = Exclusive /\ s.UpperType = Inclusive))
                     /\ cmp(f.Lower, s.Upper) = 0
             THEN Ret(TRUE, "")
             ELSE Ret(FALSE, "")

(***************************************************************************)
(* Set-algebra operators.                                                  *)
(***************************************************************************)
ErrUnion == "result of range union would not be contiguous"
ErrDifference == "result of range difference would not be contiguous"
ErrUnexpected == "unexpected case in range difference"

\* mutant: ranges that do not overlap are refused even when they are adjacent
unionOverlapOnly(first, second, strict) ==
    IF ~first.Valid THEN Ret(ZeroRange, ErrFirst)
    ELSE IF ~second.Valid THEN Ret(ZeroRange, ErrSecond)
    ELSE LET f == Rewrite(first)
             s == Rewrite(second)
             firstEmpty == Empty(f).val
             secondEmpty == Empty(s).val
             lo == IF compareBounds(f, s, TRUE, TRUE) < 0 THEN f ELSE s
             up == IF compareBounds(f, s, FALSE, FALSE) > 0 THEN f ELSE s
             result == [Lower |-> lo.Lower, LowerType |-> lo.LowerType,
                        Upper |-> up.Upper, UpperType |-> up.UpperType,
                        Valid |-> TRUE]
         IN  IF firstEmpty /\ secondEmpty THEN Ret(makeEmptyRange, "")
             ELSE IF firstEmpty THEN Ret(s, "")
             ELSE IF secondEmpty THEN Ret(f, "")
             ELSE IF ~Overlap(f, s).val /\ strict THEN Ret(ZeroRange, ErrUnion)
             ELSE Ret(Rewrite(result), "")

\* mutant: the upper edge of the result is the lesser of the two upper edges
unionLesserUpper(first, second, strict) ==
    IF ~first.Valid THEN Ret(ZeroRange, ErrFirst)
    ELSE IF ~second.Valid THEN Ret(ZeroRange, ErrSecond)
    ELSE LET f == Rewrite(first)
             s == Rewrite(second)
             firstEmpty == Empty(f).val
             secondEmpty == Empty(s).val
             lo == IF compareBounds(f, s, TRUE, TRUE) < 0 THEN f ELSE s
             up == IF compareBounds(f, s, FALSE, FALSE) < 0 THEN f ELSE s
             result == [Lower |-> lo.Lower, LowerType |-> lo.LowerType,
                        Upper |-> up.Upper, UpperType |-> up.UpperType,
                        Valid |-> TRUE]
         IN  IF firstEmpty /\ secondEmpty THEN Ret(makeEmptyRange, "")
             ELSE IF firstEmpty THEN Ret(s, "")
             ELSE IF secondEmpty THEN Ret(f, "")
             ELSE IF ~Overlap(f, s).val /\ ~Adjacent(f, s).val /\ strict
             THEN Ret(ZeroRange, ErrUnion)
             ELSE Ret(Rewrite(result), "")

union(first, second, strict) ==
    IF ~first.Valid THEN Ret(ZeroRange, ErrFirst)
    ELSE IF ~second.Valid THEN Ret(ZeroRange, ErrSecond)
    ELSE LET f == Rewrite(first)
             s == Rewrite(second)
             firstEmpty == Empty(f).val
             secondEmpty == Empty(s).val
             overlap == Overlap(f, s).val
             adjacent == Adjacent(f, s).val
             lo == IF compareBounds(f, s, TRUE, TRUE) < 0 THEN f ELSE s
             up == IF compareBounds(f, s, FALSE, FALSE) > 0 THEN f ELSE s
             result == [Lower |-> lo.Lower, LowerType |-> lo.LowerType,
                        Upper |-> up.Upper, UpperType |-> up.UpperType,
                        Valid |-> TRUE]
         IN  IF firstEmpty /\ secondEmpty THEN Ret(makeEmptyRange, "")
             ELSE IF firstEmpty THEN Ret(s, "")
             ELSE IF secondEmpty THEN Ret(f, "")
             ELSE IF ~overlap /\ ~adjacent /\ strict THEN Ret(ZeroRange, ErrUnion)
             ELSE Ret(Rewrite(result), "")

Union(first, second) == union(first, second, TRUE)

\* mutant: Merge refuses a gap as Union does
MergeStrict(first, second) == union(first, second, TRUE)

Merge(first, second) == union(first, second, FALSE)

\* mutant: the upper edge of the result is always the first operand's
IntersectFirstUpper(first, second) ==
    IF ~first.Valid THEN Ret(ZeroRange, ErrFirst)
    ELSE IF ~second.Valid THEN Ret(ZeroRange, ErrSecond)
    ELSE LET f == Rewrite(first)
             s == Rewrite(second)
             lo == IF compareBounds(f, s, TRUE, TRUE) >= 0 THEN f ELSE s
             result == [Lower |-> lo.Lower, LowerType |-> lo.LowerType,
                        Upper |-> f.Upper, UpperType |-> f.UpperType,
                        Valid |-> TRUE]
         IN  IF Empty(f).val \/ Empty(s).val \/ ~Overlap(f, s).val
             THEN Ret(makeEmptyRange, "")
             ELSE Ret(Rewrite(result), "")

\* mutant: the lower edge of the result is the lesser of the two lower edges
IntersectLesserLower(first, second) ==
    IF ~first.Valid THEN Ret(ZeroRange, ErrFirst)
    ELSE IF ~second.Valid THEN Ret(ZeroRange, ErrSecond)
    ELSE LET f == Rewrite(first)
             s == Rewrite(second)
             lo == IF compareBounds(f, s, TRUE, TRUE) <= 0 THEN f ELSE s
             up == IF compareBounds(f, s, FALSE, FALSE) <= 0 THEN f ELSE s
             result == [Lower |-> lo.Lower, LowerType |-> lo.LowerType,
                        Upper |-> up.Upper, UpperType |-> up.UpperType,
                        Valid |-> TRUE]
         IN  IF Empty(f).val \/ Empty(s).val \/ ~Overlap(f, s).val
             THEN Ret(makeEmptyRange, "")
             ELSE Ret(Rewrite(result), "")

Intersect(first, second) ==
    IF ~first.Valid THEN Ret(ZeroRange, ErrFirst)
    ELSE IF ~second.Valid THEN Ret(ZeroRange, ErrSecond)
    ELSE LET f == Rewrite(first)
             s == Rewrite(second)
             firstEmpty == Empty(f).val
             secondEmpty == Empty(s).val
             overlap == Overlap(f, s).val
             lo == IF compareBounds(f, s, TRUE, TRUE) >= 0 THEN f ELSE s
             up == IF compareBounds(f, s, FALSE, FALSE) <= 0 THEN f ELSE s
             result == [Lower |-> lo.Lower, LowerType |-> lo.LowerType,
                        Upper |-> up.Upper, UpperType |-> up.UpperType,
                        Valid |-> TRUE]
         IN  IF firstEmpty \/ secondEmpty \/ ~overlap THEN Ret(makeEmptyRange, "")
             ELSE Ret(Rewrite(result), "")

Contain(first, second) ==
    LET intersect == Intersect(first, second)
    IN  IF intersect.err # "" THEN Ret(FALSE, intersect.err)
        ELSE Equal(intersect.val, second)

\* mutant: the element range is built half-open, [elem, elem)
ContainElementHalfOpen(first, elem) ==
    Contain(first, [Lower |-> elem, LowerType |-> Inclusive,
                    Upper |-> elem, UpperType |-> Exclusive, Valid |-> TRUE])

\* second := Range{Lower: elem, Upper: elem, Valid: true}, then
\* SetBoundTypes(Inclusive, Inclusive): both types set, the values kept
ContainElement(first, elem) ==
    Contain(first, [Lower |-> elem, LowerType |-> Inclusive,
                    Upper |-> elem, UpperType |-> Inclusive, Valid |-> TRUE])

\* mutant: the split is recognised by the lower edges alone
DifferenceSplitOnLower(first, second) ==
    IF ~first.Valid THEN Ret(ZeroRange, ErrFirst)
    ELSE IF ~second.Valid THEN Ret(ZeroRange, ErrSecond)
    ELSE IF Empty(first).val THEN Ret(makeEmptyRange, "")
    ELSE IF Empty(second).val THEN Ret(Rewrite(first), "")
    ELSE LET f == Rewrite(first)
             s == Rewrite(second)
             l1l2 == compareBounds(f, s, TRUE, TRUE)
             l1u2 == compareBounds(f, s, TRUE, FALSE)
             u1l2 == compareBounds(f, s, FALSE, TRUE)
             u1u2 == compareBounds(f, s, FALSE, FALSE)
         IN  IF l1l2 < 0 THEN Ret(ZeroRange, ErrDifference)
             ELSE IF l1u2 > 0 \/ u1l2 < 0 THEN Ret(Rewrite(f), "")
             ELSE IF l1l2 >= 0 /\ u1u2 <= 0 THEN Ret(makeEmptyRange, "")
             ELSE IF l1l2 <= 0 /\ u1l2 >= 0 /\ u1u2 <= 0
             THEN Ret([Lower |-> f.Lower, LowerType |-> f.LowerType,
                       Upper |-> s.Lower,
                       UpperType |-> IF s.LowerType = Exclusive
                                     THEN Inclusive ELSE Exclusive,
                       Valid |-> TRUE], "")
             ELSE IF l1l2 >= 0 /\ u1u2 >= 0 /\ l1u2 <= 0
             THEN Ret([Lower |-> s.Upper,
                       LowerType |-> IF s.UpperType = Exclusive
                                     THEN Inclusive ELSE Exclusive,
                       Upper |-> f.Upper, UpperType |-> f.UpperType,
                       Valid |-> TRUE], "")
             ELSE Ret(ZeroRange, ErrUnexpected)

\* mutant: the right trim cuts at the second operand's upper edge
DifferenceTrimAtUpper(first, second) ==
    IF ~first.Valid THEN Ret(ZeroRange, ErrFirst)
    ELSE IF ~second.Valid THEN Ret(ZeroRange, ErrSecond)
    ELSE IF Empty(first).val THEN Ret(makeEmptyRange, "")
    ELSE IF Empty(second).val THEN Ret(Rewrite(first), "")
    ELSE LET f == Rewrite(first)
             s == Rewrite(second)
             l1l2 == compareBounds(f, s, TRUE, TRUE)
             l1u2 == compareBounds(f, s, TRUE, FALSE)
             u1l2 == compareBounds(f, s, FALSE, TRUE)
             u1u2 == compareBounds(f, s, FALSE, FALSE)
         IN  IF l1l2 < 0 /\ u1u2 > 0 THEN Ret(ZeroRange, ErrDifference)
             ELSE IF l1u2 > 0 \/ u1l2 < 0 THEN Ret(Rewrite(f), "")
             ELSE IF l1l2 >= 0 /\ u1u2 <= 0 THEN Ret(makeEmptyRange, "")
             ELSE IF l1l2 <= 0 /\ u1l2 >= 0 /\ u1u2 <= 0
             THEN Ret([Lower |-> f.Lower, LowerType |-> f.LowerType,
                       Upper |-> s.Upper,
                       UpperType |-> IF s.LowerType = Exclusive
                                     THEN Inclusive ELSE Exclusive,
                       Valid |-> TRUE], "")
             ELSE IF l1l2 >= 0 /\ u1u2 >= 0 /\ l1u2 <= 0
             THEN Ret([Lower |-> s.Upper,
                       LowerType |-> IF s.UpperType = Exclusive
                                     THEN Inclusive ELSE Exclusive,
                       Upper |-> f.Upper, UpperType |-> f.UpperType,
                       Valid |-> TRUE], "")
             ELSE Ret(ZeroRange, ErrUnexpected)

\* mutant: the split case is not classified
DifferenceSplitUnclassified(first, second) ==
    IF ~first.Valid THEN Ret(ZeroRange, ErrFirst)
    ELSE IF ~second.Valid THEN Ret(ZeroRange, ErrSecond)
    ELSE IF Empty(first).val THEN Ret(makeEmptyRange, "")
    ELSE IF Empty(second).val THEN Ret(Rewrite(first), "")
    ELSE LET f == Rewrite(first)
             s == Rewrite(second)
             l1l2 == compareBounds(f, s, TRUE, TRUE)
             l1u2 == compareBounds(f, s, TRUE, FALSE)
             u1l2 == compareBounds(f, s, FALSE, TRUE)
             u1u2 == compareBounds(f, s, FALSE, FALSE)
         IN  IF FALSE THEN Ret(ZeroRange, ErrDifference)
             ELSE IF l1u2 > 0 \/ u1l2 < 0 THEN Ret(Rewrite(f), "")
             ELSE IF l1l2 >= 0 /\ u1u2 <= 0 THEN Ret(makeEmptyRange, "")
             ELSE IF l1l2 <= 0 /\ u1l2 >= 0 /\ u1u2 <= 0
             THEN Ret([Lower |-> f.Lower, LowerType |-> f.LowerType,
                       Upper |-> s.Lower,
                       UpperType |-> IF s.LowerType = Exclusive
                                     THEN Inclusive ELSE Exclusive,
                       Valid |-> TRUE], "")
             ELSE IF l1l2 >= 0 /\ u1u2 >= 0 /\ l1u2 <= 0
             THEN Ret([Lower |-> s.Upper,
                       LowerType |-> IF s.UpperType = Exclusive
                                     THEN Inclusive ELSE Exclusive,
                       Upper |-> f.Upper, UpperType |-> f.UpperType,
                       Valid |-> TRUE], "")
             ELSE Ret(ZeroRange, ErrUnexpected)

Difference(first, second) ==
    IF ~first.Valid THEN Ret(ZeroRange, ErrFirst)
    ELSE IF ~second.Valid THEN Ret(ZeroRange, ErrSecond)
    ELSE IF Empty(first).val THEN Ret(makeEmptyRange, "")
    ELSE IF Empty(second).val THEN Ret(Rewrite(first), "")
    ELSE LET f == Rewrite(first)
             s == Rewrite(second)
             l1l2 == compareBounds(f, s, TRUE, TRUE)
             l1u2 == compareBounds(f, s, TRUE, FALSE)
             u1l2 == compareBounds(f, s, FALSE, TRUE)
             u1u2 == compareBounds(f, s, FALSE, FALSE)
         IN  IF l1l2 < 0 /\ u1u2 > 0 THEN Ret(ZeroRange, ErrDifference)
             ELSE IF l1u2 > 0 \/ u1l2 < 0 THEN Ret(Rewrite(f), "")
             ELSE IF l1l2 >= 0 /\ u1u2 <= 0 THEN Ret(makeEmptyRange, "")
             ELSE IF l1l2 <= 0 /\ u1l2 >= 0 /\ u1u2 <= 0
             THEN Ret([Lower |-> f.Lower, LowerType |-> f.LowerType,
                       Upper |-> s.Lower,
                       UpperType |-> IF s.LowerType = Exclusive
                                     THEN Inclusive ELSE Exclusive,
                       Valid |-> TRUE], "")
             ELSE IF l1l2 >= 0 /\ u1u2 >= 0 /\ l1u2 <= 0
             THEN Ret([Lower |-> s.Upper,
                       LowerType |-> IF s.UpperType = Exclusive
                                     THEN Inclusive ELSE Exclusive,
                       Upper |-> f.Upper, UpperType |-> f.UpperType,
                       Valid |-> TRUE], "")
             ELSE Ret(ZeroRange, ErrUnexpected)

(***************************************************************************)
(* Accessors of the Range wrapper (range.go); r is the wrapped r.r.        *)
(***************************************************************************)
RangeLower(r) ==
    IF LowerInf(r) THEN Ret(zero, "lower bound is infinite")
    ELSE IF r.LowerType = EmptyType THEN Ret(zero, "lower bound is empty")
    ELSE Ret(r.Lower, "")

RangeUpper(r) ==
    IF UpperInf(r) THEN Ret(zero, "upper bound is infinite")
    ELSE IF r.UpperType = EmptyType THEN Ret(zero, "upper bound is empty")
    ELSE Ret(r.Upper, "")

(***************************************************************************)
(* The state machine: one call of one method per behaviour.                *)
(*   first, second, elem : the operands of the call                        *)
(*   op                  : the method called ("none" before the call)      *)
(*   retBool, retRange, retInt, retErr : what the call returned; the       *)
(*                         results the method does not have stay zero      *)
(*   args                : the arguments first was constructed from, where *)
(*                         it was built by NewIntegerRange                 *)
(***************************************************************************)
VARIABLES first, second, elem, op, retBool, retRange, retInt, retErr, args

vars == <<first, second, elem, op, retBool, retRange, retInt, retErr, args>>

\* no constructor call: the operand is a pgtype.Range handed to the operator
NoArgs == [lower |-> 0, upper |-> 0, opts |-> <<>>]

Init ==
    /\ first \in Ranges
    /\ second = ZeroRange
    /\ elem = 0
    /\ op = "none"
    /\ retBool = FALSE
    /\ retRange = ZeroRange
    /\ retInt = 0
    /\ retErr = ""
    /\ args = NoArgs

\* a method returning (bool, error)
ReturnBool(name, r) ==
    /\ op' = name
    /\ retBool' = r.val
    /\ retErr' = r.err
    /\ UNCHANGED <<first, args, retRange, retInt>>

\* a method returning (pgtype.Range[int], error)
ReturnRange(name, r) ==
    /\ op' = name
    /\ retRange' = r.val
    /\ retErr' = r.err
    /\ UNCHANGED <<first, args, retBool, retInt>>

\* a method returning (int, error)
ReturnInt(name, r) ==
    /\ op' = name
    /\ retInt' = r.val
    /\ retErr' = r.err
    /\ UNCHANGED <<first, args, retBool, retRange>>

CallRewrite ==
    /\ op = "none"
    /\ ReturnRange("Rewrite", Ret(Rewrite(first), ""))
    /\ UNCHANGED <<second, elem>>

CallEmpty ==
    /\ op = "none"
    /\ ReturnBool("Empty", Empty(first))
    /\ UNCHANGED <<second, elem>>

CallSize ==
    /\ op = "none"
    /\ ReturnInt("Size", Size(first))
    /\ UNCHANGED <<second, elem>>

CallLower ==
    /\ op = "none"
    /\ ReturnInt("Lower", RangeLower(first))
    /\ UNCHANGED <<second, elem>>

CallUpper ==
    /\ op = "none"
    /\ ReturnInt("Upper", RangeUpper(first))
    /\ UNCHANGED <<second, elem>>

CallLowerInf ==
    /\ op = "none"
    /\ ReturnBool("LowerInf", Ret(LowerInf(first), ""))
    /\ UNCHANGED <<second, elem>>

CallUpperInf ==
    /\ op = "none"
    /\ ReturnBool("UpperInf", Ret(UpperInf(first), ""))
    /\ UNCHANGED <<second, elem>>

CallContainElement ==
    /\ op = "none"
    /\ \E e \in Elems :
          /\ elem' = e
          /\ ReturnBool("ContainElement", ContainElement(first, e))
    /\ UNCHANGED second

CallEqual ==
    /\ op = "none"
    /\ \E s \in Ranges : second' = s /\ ReturnBool("Equal", Equal(first, s))
    /\ UNCHANGED elem

CallLessThan ==
    /\ op = "none"
    /\ \E s \in Ranges : second' = s /\ ReturnBool("LessThan", LessThan(first, s))
    /\ UNCHANGED elem

CallLessThanOrEqualTo ==
    /\ op = "none"
    /\ \E s \in Ranges :
          second' = s /\ ReturnBool("LessThanOrEqualTo", LessThanOrEqualTo(first, s))
    /\ UNCHANGED elem

CallGreaterThan ==
    /\ op = "none"
    /\ \E s \in Ranges : second' = s /\ ReturnBool("GreaterThan", GreaterThan(first, s))
    /\ UNCHANGED elem

CallGreaterThanOrEqualTo ==
    /\ op = "none"
    /\ \E s \in Ranges :
          second' = s
          /\ ReturnBool("GreaterThanOrEqualTo", GreaterThanOrEqualTo(first, s))
    /\ UNCHANGED elem

CallContain ==
    /\ op = "none"
    /\ \E s \in Ranges : second' = s /\ ReturnBool("Contain", Contain(first, s))
    /\ UNCHANGED elem

CallOverlap ==
    /\ op = "none"
    /\ \E s \in Ranges : second' = s /\ ReturnBool("Overlap", Overlap(first, s))
    /\ UNCHANGED elem

CallLeftOf ==
    /\ op = "none"
    /\ \E s \in Ranges : second' = s /\ ReturnBool("LeftOf", LeftOf(first, s))
    /\ UNCHANGED elem

CallRightOf ==
    /\ op = "none"
    /\ \E s \in Ranges : second' = s /\ ReturnBool("RightOf", RightOf(first, s))
    /\ UNCHANGED elem

CallNotExtendRight ==
    /\ op = "none"
    /\ \E s \in Ranges :
          second' = s /\ ReturnBool("NotExtendRight", NotExtendRight(first, s))
    /\ UNCHANGED elem

CallNotExtendLeft ==
    /\ op = "none"
    /\ \E s \in Ranges :
          second' = s /\ ReturnBool("NotExtendLeft", NotExtendLeft(first, s))
    /\ UNCHANGED elem

CallAdjacent ==
    /\ op = "none"
    /\ \E s \in Ranges : second' = s /\ ReturnBool("Adjacent", Adjacent(first, s))
    /\ UNCHANGED elem

CallUnion ==
    /\ op = "none"
    /\ \E s \in Ranges : second' = s /\ ReturnRange("Union", Union(first, s))
    /\ UNCHANGED elem

CallMerge ==
    /\ op = "none"
    /\ \E s \in Ranges : second' = s /\ ReturnRange("Merge", Merge(first, s))
    /\ UNCHANGED elem

CallIntersect ==
    /\ op = "none"
    /\ \E s \in Ranges : second' = s /\ ReturnRange("Intersect", Intersect(first, s))
    /\ UNCHANGED elem

CallDifference ==
    /\ op = "none"
    /\ \E s \in Ranges : second' = s /\ ReturnRange("Difference", Difference(first, s))
    /\ UNCHANGED elem

Next ==
    \/ CallRewrite
    \/ CallEmpty
    \/ CallSize
    \/ CallLower
    \/ CallUpper
    \/ CallLowerInf
    \/ CallUpperInf
    \/ CallContainElement
    \/ CallEqual
    \/ CallLessThan
    \/ CallLessThanOrEqualTo
    \/ CallGreaterThan
    \/ CallGreaterThanOrEqualTo
    \/ CallContain
    \/ CallOverlap
    \/ CallLeftOf
    \/ CallRightOf
    \/ CallNotExtendRight
    \/ CallNotExtendLeft
    \/ CallAdjacent
    \/ CallUnion
    \/ CallMerge
    \/ CallIntersect
    \/ CallDifference

Spec == Init /\ [][Next]_vars

(***************************************************************************)
(* The bound comparison on its own: compareBounds is not exported, so it   *)
(* is applied here directly, to two edges chosen by the two selectors.     *)
(* The selectors of the call are kept in the name of the operation.        *)
(***************************************************************************)
CompareBoundsName(firstLower, secondLower) ==
    IF firstLower
    THEN (IF secondLower THEN "compareBounds(lower,lower)"
          ELSE "compareBounds(lower,upper)")
    ELSE (IF secondLower THEN "compareBounds(upper,lower)"
          ELSE "compareBounds(upper,upper)")

CallCompareBounds ==
    /\ op = "none"
    /\ \E s \in Ranges, firstLower \in BOOLEAN, secondLower \in BOOLEAN :
          /\ second' = s
          /\ ReturnInt(CompareBoundsName(firstLower, secondLower),
                       Ret(compareBounds(first, s, firstLower, secondLower), ""))
    /\ UNCHANGED elem

NextBounds == CallCompareBounds

SpecBounds == Init /\ [][NextBounds]_vars

(***************************************************************************)
(* The Range wrapper of range.go as a mutable value: NewIntegerRange with  *)
(* its options builds the range, the setters change it in place.           *)
(***************************************************************************)
\* at most MaxOpts options are passed to the constructor
MaxOpts == 2

\* a RangeOption: its constructor, and the bound type it was given
Options ==
    [kind : {"WithLowerType", "WithUpperType"}, type : BoundType]
        \cup [kind : {"WithLowerInf", "WithUpperInf", "WithInvalid"},
              type : {ZeroBoundType}]

OptionLists == UNION {[1..n -> Options] : n \in 0..MaxOpts}

WithLowerType(r, t) == [r EXCEPT !.LowerType = t]

WithLowerInf(r) == [r EXCEPT !.Lower = zero, !.LowerType = Unbounded]

WithUpperType(r, t) == [r EXCEPT !.UpperType = t]

WithUpperInf(r) == [r EXCEPT !.Lower = zero, !.LowerType = Unbounded]

WithInvalid(r) == [r EXCEPT !.Valid = FALSE]

\* opt(result)
ApplyOption(r, o) ==
    IF o.kind = "WithLowerType" THEN WithLowerType(r, o.type)
    ELSE IF o.kind = "WithLowerInf" THEN WithLowerInf(r)
    ELSE IF o.kind = "WithUpperType" THEN WithUpperType(r, o.type)
    ELSE IF o.kind = "WithUpperInf" THEN WithUpperInf(r)
    ELSE WithInvalid(r)

\* for _, opt := range opts { opt(result) }
RECURSIVE ApplyOptions(_, _)
ApplyOptions(r, opts) ==
    IF opts = <<>> THEN r
    ELSE ApplyOptions(ApplyOption(r, Head(opts)), Tail(opts))

NewIntegerRange(lower, upper, opts) ==
    ApplyOptions([Lower |-> lower, LowerType |-> Inclusive,
                  Upper |-> upper, UpperType |-> Exclusive, Valid |-> TRUE],
                 opts)

SetLowerBoundType(r, v) ==
    LET t == [r EXCEPT !.LowerType = v]
    IN  [t EXCEPT !.Valid = ~(t.LowerType = EmptyType \/ t.UpperType = EmptyType)]

SetUpperBoundType(r, v) ==
    LET t == [r EXCEPT !.UpperType = v]
    IN  [t EXCEPT !.Valid = ~(t.LowerType = EmptyType \/ t.UpperType = EmptyType)]

SetLowerInf(r) == [r EXCEPT !.Lower = zero, !.LowerType = Unbounded]

SetUpperInf(r) == [r EXCEPT !.Upper = zero, !.UpperType = Unbounded]

\* the state after construction: first is the range NewIntegerRange returned
InitRange ==
    /\ args \in [lower : Vals, upper : Vals, opts : OptionLists]
    /\ first = NewIntegerRange(args.lower, args.upper, args.opts)
    /\ op = "NewIntegerRange"
    /\ second = ZeroRange
    /\ elem = 0
    /\ retBool = FALSE
    /\ retRange = ZeroRange
    /\ retInt = 0
    /\ retErr = ""

\* a setter: it changes the range in place and returns the receiver
Setter(name, r) ==
    /\ first' = r
    /\ op' = name
    /\ UNCHANGED <<second, elem, retBool, retRange, retInt, retErr, args>>

CallSetLower == \E v \in Vals : Setter("SetLower", [first EXCEPT !.Lower = v])

CallSetUpper == \E v \in Vals : Setter("SetUpper", [first EXCEPT !.Upper = v])

CallSetLowerBoundType ==
    \E v \in BoundType : Setter("SetLowerBoundType", SetLowerBoundType(first, v))

CallSetUpperBoundType ==
    \E v \in BoundType : Setter("SetUpperBoundType", SetUpperBoundType(first, v))

CallSetLowerInf == Setter("SetLowerInf", SetLowerInf(first))

CallSetUpperInf == Setter("SetUpperInf", SetUpperInf(first))

NextRange ==
    \/ CallSetLower
    \/ CallSetUpper
    \/ CallSetLowerBoundType
    \/ CallSetUpperBoundType
    \/ CallSetLowerInf
    \/ CallSetUpperInf

SpecRange == InitRange /\ [][NextRange]_vars

(***************************************************************************)
(* The integer instance at the limits of the int: the operand stores       *)
(* values next to MinInt, zero and MaxInt, so that the successor and the   *)
(* distance of NewInteger wrap around, and Size, Empty and Rewrite are     *)
(* called on it.                                                           *)
(***************************************************************************)
\* values an int can hold that lie on or next to its limits, and around zero
LimitVals == {MinInt, MinInt + 1, 0 - 1, 0, 1, MaxInt - 1, MaxInt}

LimitRanges ==
    [Lower : LimitVals, LowerType : BoundType,
     Upper : LimitVals, UpperType : BoundType, Valid : BOOLEAN]

InitLimits ==
    /\ first \in LimitRanges
    /\ second = ZeroRange
    /\ elem = 0
    /\ op = "none"
    /\ retBool = FALSE
    /\ retRange = ZeroRange
    /\ retInt = 0
    /\ retErr = ""
    /\ args = NoArgs

NextLimits ==
    \/ CallEmpty
    \/ CallSize
    \/ CallRewrite

SpecLimits == InitLimits /\ [][NextLimits]_vars

(***************************************************************************)
(* The set of integers a range denotes, read off its bound types: the      *)
(* reference the operators are compared against.  Every stored value lies  *)
(* in Vals and every canonical edge in 0..MaxVal+1, so the integers of     *)
(* Elems (one below, one on each edge, one above) decide every inclusion.  *)
(***************************************************************************)
SatisfiesLower(r, e) ==
    \/ r.LowerType = Unbounded
    \/ r.LowerType = Inclusive /\ e >= r.Lower
    \/ r.LowerType = Exclusive /\ e > r.Lower

SatisfiesUpper(r, e) ==
    \/ r.UpperType = Unbounded
    \/ r.UpperType = Inclusive /\ e <= r.Upper
    \/ r.UpperType = Exclusive /\ e < r.Upper

Members(r) == {e \in Elems : SatisfiesLower(r, e) /\ SatisfiesUpper(r, e)}

\* Empty marks both bounds or neither
WellFormed(r) == (r.LowerType = EmptyType) <=> (r.UpperType = EmptyType)

IsCanonical(r) ==
    \/ r.LowerType = EmptyType /\ r.UpperType = EmptyType /\ r.Valid
    \/ r.LowerType \in {Inclusive, Unbounded} /\ r.UpperType \in {Exclusive, Unbounded}

(***************************************************************************)
(* C1.  Rewrite is idempotent: for every range (any bound types, any       *)
(* values, valid or not) rewriting the result of Rewrite returns the same  *)
(* range, field for field.                                                 *)
(***************************************************************************)
C1_RewriteIdempotent ==
    op = "Rewrite" => Rewrite(retRange) = retRange

\* a range whose two bounds were both converted, and that is not empty
C1_Witness ==
    /\ op = "Rewrite"
    /\ first.LowerType = Exclusive /\ first.UpperType = Inclusive
    /\ retRange.LowerType = Inclusive /\ retRange.UpperType = Exclusive
    /\ retRange.Lower = first.Lower + 1 /\ retRange.Upper = first.Upper + 1

(***************************************************************************)
(* C2.  For every valid range whose bound types are both Empty or neither  *)
(* Empty, Rewrite returns the canonical empty range (both types Empty,     *)
(* valid) or a range with an Inclusive or Unbounded lower and an Exclusive *)
(* or Unbounded upper bound.                                               *)
(***************************************************************************)
C2_RewriteCanonical ==
    (op = "Rewrite" /\ first.Valid /\ WellFormed(first)) => IsCanonical(retRange)

\* an Inclusive upper bound went in and an Exclusive one came out
C2_Witness ==
    /\ op = "Rewrite" /\ first.Valid /\ WellFormed(first)
    /\ first.UpperType = Inclusive /\ first.LowerType = Exclusive
    /\ retRange.UpperType = Exclusive /\ retRange.LowerType = Inclusive

OrderOps == {"LessThan", "Equal", "GreaterThan"}

\* what method o returns on the operands of the state; the method that was
\* called is read from the recorded result
OrderOutcome(o) ==
    IF o = op THEN Ret(retBool, retErr)
    ELSE IF o = "LessThan" THEN LessThan(first, second)
    ELSE IF o = "Equal" THEN Equal(first, second)
    ELSE GreaterThan(first, second)

C4_TotalOrder ==
    (op \in OrderOps /\ first.Valid /\ second.Valid) =>
        /\ \A o \in OrderOps : OrderOutcome(o).err = ""
        /\ Cardinality({o \in OrderOps : OrderOutcome(o).val}) = 1

\* two different representations of the same non-empty set compare Equal
C4_Witness ==
    /\ op = "Equal" /\ first.Valid /\ second.Valid
    /\ retBool /\ first # second
    /\ ~Empty(first).val

NoUnbounded(r) == r.LowerType # Unbounded /\ r.UpperType # Unbounded

InclusionExclusion(a, b, u) ==
    Size(u).val >= Size(a).val + Size(b).val - Size(Intersect(a, b).val).val

C6_InclusionExclusion ==
    (/\ op = "Union" /\ retErr = ""
     /\ first.Valid /\ second.Valid
     /\ NoUnbounded(first) /\ NoUnbounded(second)) =>
        InclusionExclusion(first, second, retRange)

\* the same, for operands that carry no Empty bound type
C6_InclusionExclusionNoEmptyType ==
    (/\ op = "Union" /\ retErr = ""
     /\ first.Valid /\ second.Valid
     /\ first.LowerType \in {Inclusive, Exclusive}
     /\ first.UpperType \in {Inclusive, Exclusive}
     /\ second.LowerType \in {Inclusive, Exclusive}
     /\ second.UpperType \in {Inclusive, Exclusive}) =>
        InclusionExclusion(first, second, retRange)

(***************************************************************************)
(* C7.  Every predicate and operator of the operator instance returns an   *)
(* error whenever one of its range operands has Valid = false, whatever    *)
(* the bound types and values.                                             *)
(***************************************************************************)
\* methods taking one range (ContainElement: a range and an element)
UnaryMethods == {"Empty", "Size", "ContainElement"}

\* methods taking two ranges
BinaryMethods ==
    {"Equal", "LessThan", "LessThanOrEqualTo", "GreaterThan",
     "GreaterThanOrEqualTo", "Contain", "Overlap", "LeftOf", "RightOf",
     "NotExtendLeft", "NotExtendRight", "Adjacent",
     "Union", "Merge", "Intersect", "Difference"}

C7_InvalidOperandFails ==
    /\ (op \in UnaryMethods \cup BinaryMethods /\ ~first.Valid) => retErr # ""
    /\ (op \in BinaryMethods /\ ~second.Valid) => retErr # ""

\* a binary method failed on an invalid second operand beside a valid first
C7_Witness ==
    /\ op = "Equal" /\ first.Valid /\ ~second.Valid
    /\ first.LowerType = EmptyType /\ second.LowerType = Unbounded
    /\ retErr = ErrSecond

(***************************************************************************)
(* C8.  No partial success: whenever a method returns an error, the value  *)
(* beside it is the zero sentinel: false for the predicates, the zero      *)
(* range for Union, Merge, Intersect and Difference, 0 for Size and the    *)
(* zero element for the Lower and Upper accessors.                         *)
(***************************************************************************)
BoolMethods ==
    {"Empty", "ContainElement", "Equal", "LessThan", "LessThanOrEqualTo",
     "GreaterThan", "GreaterThanOrEqualTo", "Contain", "Overlap", "LeftOf",
     "RightOf", "NotExtendLeft", "NotExtendRight", "Adjacent"}

RangeMethods == {"Union", "Merge", "Intersect", "Difference"}

IntMethods == {"Size", "Lower", "Upper"}

C8_ErrorReturnsZero ==
    retErr # "" =>
        /\ op \in BoolMethods \cup RangeMethods \cup IntMethods
        /\ op \in BoolMethods => retBool = FALSE
        /\ op \in RangeMethods => retRange = ZeroRange
        /\ op \in IntMethods => retInt = zero

\* Size failed on a range whose measure, had it been computed, is not 0
C8_Witness ==
    /\ op = "Size" /\ retErr # "" /\ retInt = 0
    /\ first.LowerType = Inclusive /\ first.UpperType = Inclusive
    /\ first.Lower < first.Upper

EdgesCross(a, b) ==
    /\ compareBounds(Rewrite(a), Rewrite(b), TRUE, FALSE) <= 0
    /\ compareBounds(Rewrite(b), Rewrite(a), TRUE, FALSE) <= 0

OverlapDecides(a, b, result) ==
    /\ (Empty(a).val \/ Empty(b).val) => ~result
    /\ ~(Empty(a).val \/ Empty(b).val) => (result <=> EdgesCross(a, b))
    /\ result <=> (Members(a) \cap Members(b) # {})

LowerEdge(r) ==
    IF r.LowerType = Unbounded THEN <<Unbounded>> ELSE <<r.LowerType, r.Lower>>

UpperEdge(r) ==
    IF r.UpperType = Unbounded THEN <<Unbounded>> ELSE <<r.UpperType, r.Upper>>

\* the lesser / greater of the edges of two canonical, non-empty ranges
GreaterLowerEdge(f, s) ==
    IF f.LowerType = Unbounded THEN LowerEdge(s)
    ELSE IF s.LowerType = Unbounded THEN LowerEdge(f)
    ELSE IF f.Lower >= s.Lower THEN LowerEdge(f) ELSE LowerEdge(s)

LesserLowerEdge(f, s) ==
    IF f.LowerType = Unbounded \/ s.LowerType = Unbounded THEN <<Unbounded>>
    ELSE IF f.Lower <= s.Lower THEN LowerEdge(f) ELSE LowerEdge(s)

LesserUpperEdge(f, s) ==
    IF f.UpperType = Unbounded THEN UpperEdge(s)
    ELSE IF s.UpperType = Unbounded THEN UpperEdge(f)
    ELSE IF f.Upper <= s.Upper THEN UpperEdge(f) ELSE UpperEdge(s)

GreaterUpperEdge(f, s) ==
    IF f.UpperType = Unbounded \/ s.UpperType = Unbounded THEN <<Unbounded>>
    ELSE IF f.Upper >= s.Upper THEN UpperEdge(f) ELSE UpperEdge(s)

IntersectIs(a, b, result) ==
    /\ IsCanonical(result)
    /\ Members(result) = Members(a) \cap Members(b)
    /\ IF Empty(a).val \/ Empty(b).val \/ ~Overlap(a, b).val
       THEN result = makeEmptyRange
       ELSE /\ result.Valid
            /\ LowerEdge(result) = GreaterLowerEdge(Rewrite(a), Rewrite(b))
            /\ UpperEdge(result) = LesserUpperEdge(Rewrite(a), Rewrite(b))

Apart(a, b) ==
    /\ ~Empty(a).val /\ ~Empty(b).val
    /\ ~Overlap(a, b).val /\ ~Adjacent(a, b).val

C13_UnionFailsIffApart ==
    (op = "Union" /\ first.Valid /\ second.Valid) =>
        /\ Apart(first, second) => retErr = ErrUnion
        /\ ~Apart(first, second) => retErr = ""

\* two non-empty ranges with a gap between them, and the error
C13_Witness ==
    /\ op = "Union" /\ first.Valid /\ second.Valid
    /\ retErr = ErrUnion
    /\ first.LowerType = Inclusive /\ first.UpperType = Inclusive
    /\ second.LowerType = Inclusive /\ second.UpperType = Inclusive
    /\ first.Upper + 1 < second.Lower

(***************************************************************************)
(* C14.  Whenever Union(a,b) returns no error for valid ranges, its result *)
(* is in canonical form and contains exactly the integers contained in a   *)
(* or in b: the canonical empty range if both are empty, the canonicalized *)
(* other operand if one is empty, and otherwise the range from the lesser  *)
(* of the two lower edges to the greater of the two upper edges.           *)
(***************************************************************************)
\* result spans from the lesser lower edge to the greater upper edge
SpansBoth(a, b, result) ==
    /\ result.Valid
    /\ LowerEdge(result) = LesserLowerEdge(Rewrite(a), Rewrite(b))
    /\ UpperEdge(result) = GreaterUpperEdge(Rewrite(a), Rewrite(b))

UnionIs(a, b, result) ==
    /\ IsCanonical(result)
    /\ Members(result) = Members(a) \cup Members(b)
    /\ IF Empty(a).val /\ Empty(b).val THEN result = makeEmptyRange
       ELSE IF Empty(a).val THEN result = Rewrite(b)
       ELSE IF Empty(b).val THEN result = Rewrite(a)
       ELSE SpansBoth(a, b, result)

Hull(m) == {e \in Elems : \E x, y \in m : x <= e /\ e <= y}

MergeIs(a, b, result) ==
    /\ Members(result) = Hull(Members(a) \cup Members(b))
    /\ IF Union(a, b).err = ""
       THEN result = Union(a, b).val
       ELSE /\ Union(a, b).err = ErrUnion
            /\ IsCanonical(result)
            /\ SpansBoth(a, b, result)

StrictlyInside(b, a) ==
    /\ ~Empty(a).val /\ ~Empty(b).val
    /\ compareBounds(Rewrite(a), Rewrite(b), TRUE, TRUE) < 0
    /\ compareBounds(Rewrite(b), Rewrite(a), FALSE, FALSE) < 0

IsInterval(m) == m = Hull(m)

DifferenceFailsIffSplit(a, b, err) ==
    /\ err \in {"", ErrDifference}
    /\ err = ErrDifference <=> StrictlyInside(b, a)
    /\ err = ErrDifference <=> ~IsInterval(Members(a) \ Members(b))

Trimmed(a, b, result) ==
    \/ /\ LowerEdge(result) = LowerEdge(Rewrite(a))
       /\ UpperEdge(result) = <<Exclusive, Rewrite(b).Lower>>
       /\ Rewrite(b).LowerType = Inclusive
    \/ /\ UpperEdge(result) = UpperEdge(Rewrite(a))
       /\ LowerEdge(result) = <<Inclusive, Rewrite(b).Upper>>
       /\ Rewrite(b).UpperType = Exclusive

DifferenceIs(a, b, result) ==
    /\ IsCanonical(result)
    /\ Members(result) = Members(a) \ Members(b)
    /\ IF Empty(a).val THEN result = makeEmptyRange
       ELSE IF Empty(b).val THEN result = Rewrite(a)
       ELSE IF Members(a) \subseteq Members(b) THEN result = makeEmptyRange
       ELSE IF Members(a) \cap Members(b) = {} THEN result = Rewrite(a)
       ELSE result.Valid /\ Trimmed(a, b, result)

C18_UnexpectedUnreachable ==
    (op = "Difference" /\ first.Valid /\ second.Valid) =>
        retErr # ErrUnexpected

\* the last classified case, trim left: the first operand starts inside the
\* second and reaches beyond it
C18_Witness ==
    /\ op = "Difference" /\ first.Valid /\ second.Valid /\ retErr = ""
    /\ ~Empty(first).val /\ ~Empty(second).val
    /\ compareBounds(Rewrite(first), Rewrite(second), TRUE, TRUE) >= 0
    /\ compareBounds(Rewrite(first), Rewrite(second), FALSE, FALSE) > 0
    /\ compareBounds(Rewrite(first), Rewrite(second), TRUE, FALSE) <= 0
    /\ retRange.Lower = Rewrite(second).Upper

(***************************************************************************)
(* C19.  Size measures the range: for every valid range whose two bounds   *)
(* are each Inclusive or Exclusive (any lower and upper values), Size      *)
(* returns without error the number of integers the range contains; it     *)
(* returns an error when the range is invalid or either bound is           *)
(* Unbounded.                                                              *)
(***************************************************************************)
Bounded(r) ==
    /\ r.LowerType \in {Inclusive, Exclusive}
    /\ r.UpperType \in {Inclusive, Exclusive}

SizeFailsWhenUndefined ==
    (op = "Size" /\ (~first.Valid \/ ~NoUnbounded(first))) => retErr # ""

SignedSpan(r) ==
    (r.Upper + (IF r.UpperType = Inclusive THEN 1 ELSE 0))
        - (r.Lower + (IF r.LowerType = Exclusive THEN 1 ELSE 0))

LowerAccessors ==
    /\ op = "Lower" =>
          /\ retErr # "" <=> first.LowerType \in {Unbounded, EmptyType}
          /\ retErr = "" => retInt = first.Lower
    /\ op = "LowerInf" => (retBool <=> first.LowerType = Unbounded)

\* the part of the statement about the upper bound
UpperAccessors ==
    /\ op = "Upper" =>
          /\ retErr # "" <=> first.UpperType \in {Unbounded, EmptyType}
          /\ retErr = "" => retInt = first.Upper
    /\ op = "UpperInf" => (retBool <=> first.UpperType = Unbounded)

C20_BoundAccessors == LowerAccessors /\ UpperAccessors

(***************************************************************************)
(* C21.  Range ordering: for valid ranges a, b, LessThan,                  *)
(* LessThanOrEqualTo, GreaterThan and GreaterThanOrEqualTo all derive from *)
(* one comparison that yields 0 when both are empty, places an empty range *)
(* before every non-empty range, and otherwise compares lower edges and    *)
(* breaks ties by upper edges; consequently                                *)
(* LessThanOrEqualTo(a,b) = not GreaterThan(a,b),                          *)
(* GreaterThanOrEqualTo(a,b) = not LessThan(a,b),                          *)
(* LessThan(a,b) = GreaterThan(b,a), and the order is transitive.          *)
(***************************************************************************)
RelOps == {"LessThan", "LessThanOrEqualTo", "GreaterThan", "GreaterThanOrEqualTo"}

\* the one comparison, read off the operands as given
RangeOrder(a, b) ==
    IF Empty(a).val /\ Empty(b).val THEN 0
    ELSE IF Empty(a).val THEN 0 - 1
    ELSE IF Empty(b).val THEN 1
    ELSE IF compareBounds(Rewrite(a), Rewrite(b), TRUE, TRUE) # 0
    THEN compareBounds(Rewrite(a), Rewrite(b), TRUE, TRUE)
    ELSE compareBounds(Rewrite(a), Rewrite(b), FALSE, FALSE)

\* what the method named o answers when the comparison yields c
RelHolds(o, c) ==
    IF o = "LessThan" THEN c < 0
    ELSE IF o = "LessThanOrEqualTo" THEN c <= 0
    ELSE IF o = "GreaterThan" THEN c > 0
    ELSE c >= 0

Sign(x) == IF x < 0 THEN 0 - 1 ELSE IF x > 0 THEN 1 ELSE 0

\* the position of an edge on the number line, scaled by four to make room
\* between the integers: an Inclusive edge at v lies on 4v, an open lower
\* edge just above it (4v + 1), an open upper edge just below it (4v - 1),
\* an Unbounded edge beyond every other
EdgeKey(r, lower) ==
    LET type == IF lower THEN r.LowerType ELSE r.UpperType
        value == IF lower THEN r.Lower ELSE r.Upper
    IN  IF type = Unbounded
        THEN (IF lower THEN 4 * MinInt - 2 ELSE 4 * MaxInt + 2)
        ELSE IF type = Inclusive THEN 4 * value
        ELSE IF lower THEN 4 * value + 1 ELSE 4 * value - 1

\* the key of a range: empty first, then by lower edge, then by upper edge
RangeKey(r) ==
    IF Empty(r).val THEN <<0, 0, 0>>
    ELSE <<1, EdgeKey(Rewrite(r), TRUE), EdgeKey(Rewrite(r), FALSE)>>

\* the sign of the lexicographic comparison of two keys
LexSign(k, l) ==
    IF k[1] # l[1] THEN Sign(k[1] - l[1])
    ELSE IF k[2] # l[2] THEN Sign(k[2] - l[2])
    ELSE Sign(k[3] - l[3])

\* one range of each canonical form
CanonicalRanges == {Rewrite(r) : r \in {x \in Ranges : x.Valid}}

Transitive(a, b) ==
    \A c \in CanonicalRanges :
        /\ (LessThan(a, b).val /\ LessThan(b, c).val) => LessThan(a, c).val
        /\ (LessThanOrEqualTo(a, b).val /\ LessThanOrEqualTo(b, c).val)
              => LessThanOrEqualTo(a, c).val

\* The methods answer by RangeOrder, and RangeOrder is the order of the keys,
\* a lexicographic order of integers and so transitive on all operands;
\* transitivity is also tried directly on the ranges in canonical form.
C21_RangeOrdering ==
    (op \in RelOps /\ first.Valid /\ second.Valid) =>
        /\ retErr = ""
        /\ retBool <=> RelHolds(op, RangeOrder(first, second))
        /\ RangeOrder(first, second) = LexSign(RangeKey(first), RangeKey(second))
        /\ LessThanOrEqualTo(first, second).val <=> ~GreaterThan(first, second).val
        /\ GreaterThanOrEqualTo(first, second).val <=> ~LessThan(first, second).val
        /\ LessThan(first, second).val <=> GreaterThan(second, first).val
        /\ (op = "LessThan" /\ first = Rewrite(first) /\ second = Rewrite(second))
              => Transitive(first, second)

\* equal lower edges, the tie broken by the upper edges
C21_Witness ==
    /\ op = "LessThan" /\ first.Valid /\ second.Valid /\ retBool
    /\ ~Empty(first).val /\ ~Empty(second).val
    /\ compareBounds(Rewrite(first), Rewrite(second), TRUE, TRUE) = 0
    /\ first.UpperType = Inclusive /\ second.UpperType = Unbounded

(***************************************************************************)
(* C22.  LeftOf / RightOf: for valid ranges a, b, LeftOf(a,b) is false if  *)
(* either is empty and otherwise true iff a.upper < b.lower in the bound   *)
(* order, that is iff every integer in a is smaller than every integer in  *)
(* b; RightOf(a,b) = LeftOf(b,a).                                          *)
(***************************************************************************)
AllBelow(a, b) == \A x \in Members(a), y \in Members(b) : x < y

LeftOfDecides(a, b, result) ==
    IF Empty(a).val \/ Empty(b).val THEN ~result
    ELSE /\ result <=> EdgeKey(Rewrite(a), FALSE) < EdgeKey(Rewrite(b), TRUE)
         /\ result <=> AllBelow(a, b)

LeftRightOf ==
    /\ op = "LeftOf" => (retErr = "" /\ LeftOfDecides(first, second, retBool))
    /\ op = "RightOf" =>
          /\ Ret(retBool, retErr) = LeftOf(second, first)
          /\ retErr = "" /\ LeftOfDecides(second, first, retBool)

C23_NotExtend ==
    (op \in {"NotExtendRight", "NotExtendLeft"} /\ first.Valid /\ second.Valid) =>
        /\ retErr = ""
        /\ (Empty(first).val \/ Empty(second).val) => ~retBool
        /\ (op = "NotExtendRight" /\ ~Empty(first).val /\ ~Empty(second).val) =>
              (retBool <=> EdgeKey(Rewrite(first), FALSE)
                              <= EdgeKey(Rewrite(second), FALSE))
        /\ (op = "NotExtendLeft" /\ ~Empty(first).val /\ ~Empty(second).val) =>
              (retBool <=> EdgeKey(Rewrite(first), TRUE)
                              >= EdgeKey(Rewrite(second), TRUE))

\* a closed and a half-open range that end on the same integer: equal
\* canonical upper edges
C23_Witness ==
    /\ op = "NotExtendRight" /\ first.Valid /\ second.Valid /\ retBool
    /\ first.UpperType = Inclusive /\ second.UpperType = Exclusive
    /\ first.Upper + 1 = second.Upper
    /\ ~Empty(first).val /\ ~Empty(second).val

(***************************************************************************)
(* C24.  Adjacent: for valid ranges a, b, Adjacent(a,b) is false if either *)
(* is empty and otherwise true iff the ranges touch with no gap and no     *)
(* overlap, that is iff the canonical exclusive upper value of one equals  *)
(* the canonical inclusive lower value of the other (both bounded);        *)
(* Adjacent(a,b) = Adjacent(b,a), and an Unbounded edge is never a         *)
(* touching edge.                                                          *)
(***************************************************************************)
\* the upper edge of a meets the lower edge of b
Meets(a, b) ==
    /\ Rewrite(a).UpperType = Exclusive /\ Rewrite(b).LowerType = Inclusive
    /\ Rewrite(a).Upper = Rewrite(b).Lower

\* no gap, no overlap: two sets of integers, disjoint and together one interval
Touch(a, b) ==
    /\ Members(a) # {} /\ Members(b) # {}
    /\ Members(a) \cap Members(b) = {}
    /\ IsInterval(Members(a) \cup Members(b))

CompareBoundsOps ==
    {CompareBoundsName(x, y) : x \in BOOLEAN, y \in BOOLEAN}

\* the selectors of the call recorded in the state
CalledFirstLower ==
    op \in {"compareBounds(lower,lower)", "compareBounds(lower,upper)"}

CalledSecondLower ==
    op \in {"compareBounds(lower,lower)", "compareBounds(upper,lower)"}

EdgeType(r, lower) == IF lower THEN r.LowerType ELSE r.UpperType

\* one range for each edge, the same edge on both sides
EdgeRanges ==
    {[Lower |-> v, LowerType |-> t, Upper |-> v, UpperType |-> t, Valid |-> TRUE] :
        v \in Vals, t \in {Inclusive, Exclusive, Unbounded}}

C25_CompareBoundsKey ==
    (/\ op \in CompareBoundsOps
     /\ EdgeType(first, CalledFirstLower) # EmptyType
     /\ EdgeType(second, CalledSecondLower) # EmptyType) =>
        /\ retInt = Sign(EdgeKey(first, CalledFirstLower)
                            - EdgeKey(second, CalledSecondLower))
        /\ retInt = 0 - compareBounds(second, first,
                                      CalledSecondLower, CalledFirstLower)
        /\ \A c \in EdgeRanges, cLower \in BOOLEAN :
              (retInt <= 0
               /\ compareBounds(second, c, CalledSecondLower, cLower) <= 0)
                  => compareBounds(first, c, CalledFirstLower, cLower) <= 0

\* an Exclusive lower edge and an Exclusive upper edge at the same value:
\* the lower edge is the greater
C25_Witness ==
    /\ op = "compareBounds(lower,upper)"
    /\ first.LowerType = Exclusive /\ second.UpperType = Exclusive
    /\ first.Lower = second.Upper
    /\ retInt = 1

(***************************************************************************)
(* C26.  Position trichotomy: for every pair of valid non-empty ranges     *)
(* a, b, exactly one of LeftOf(a,b), RightOf(a,b), Overlap(a,b) is true;   *)
(* if either range is empty all three are false.                           *)
(***************************************************************************)
PositionOps == {"LeftOf", "RightOf", "Overlap"}

\* what method o returns on the operands of the state; the method that was
\* called is read from the recorded result
PositionOutcome(o) ==
    IF o = op THEN retBool
    ELSE IF o = "LeftOf" THEN LeftOf(first, second).val
    ELSE IF o = "RightOf" THEN RightOf(first, second).val
    ELSE Overlap(first, second).val

C27_CanonicalFormUnique ==
    (op = "Equal" /\ first.Valid /\ second.Valid /\ retBool) =>
        Rewrite(first) = Rewrite(second)

\* an Unbounded bound stores the zero value, as WithLowerInf, SetLowerInf and
\* SetUpperInf leave it
UnboundedStoresZero(r) ==
    /\ r.LowerType = Unbounded => r.Lower = zero
    /\ r.UpperType = Unbounded => r.Upper = zero

\* the same, for ranges whose Unbounded bounds store the zero value and whose
\* bound types are both Empty or neither Empty
C27_CanonicalFormUniqueZeroed ==
    (/\ op = "Equal" /\ first.Valid /\ second.Valid /\ retBool
     /\ UnboundedStoresZero(first) /\ UnboundedStoresZero(second)
     /\ WellFormed(first) /\ WellFormed(second)) =>
        Rewrite(first) = Rewrite(second)

(***************************************************************************)
(* C28.  Setter validity invariant: starting from a range built by         *)
(* NewIntegerRange, after any sequence of calls to SetLower, SetUpper,     *)
(* SetLowerBoundType, SetUpperBoundType, SetLowerInf and SetUpperInf, the  *)
(* range's valid flag is false exactly when at least one of its two bound  *)
(* types is Empty.  (Specification SpecRange.)                             *)
(***************************************************************************)
ValidIffNoEmpty(r) ==
    ~r.Valid <=> (r.LowerType = EmptyType \/ r.UpperType = EmptyType)

C28_SetterValidity == ValidIffNoEmpty(first)

\* the same as a step property: no setter takes a range on which the flag
\* agrees with the bound types to one on which it does not
C28_SettersPreserveValidity ==
    [][ValidIffNoEmpty(first) => ValidIffNoEmpty(first')]_vars

\* the flag agrees with the bound types after a bound type setter
C28_BoundTypeSettersSetValidity ==
    op \in {"SetLowerBoundType", "SetUpperBoundType"} => ValidIffNoEmpty(first)

(***************************************************************************)
(* C29.  The WithUpperInf option changes only the upper bound:             *)
(* NewIntegerRange(l, u, WithUpperInf()) yields the valid range [l, +inf), *)
(* that is upper bound type Unbounded while the lower bound stays          *)
(* Inclusive with value l (mirroring WithLowerInf, which makes only the    *)
(* lower bound Unbounded).  (Specification SpecRange.)                     *)
(***************************************************************************)
\* the range was just built with the one option of this kind
BuiltWith(kind) ==
    /\ op = "NewIntegerRange"
    /\ args.opts = <<[kind |-> kind, type |-> ZeroBoundType]>>

C29_WithUpperInfOnlyUpper ==
    BuiltWith("WithUpperInf") =>
        /\ first.Valid
        /\ first.UpperType = Unbounded
        /\ first.LowerType = Inclusive /\ first.Lower = args.lower

\* the mirror image holds: WithLowerInf makes only the lower bound Unbounded
C29_WithLowerInfOnlyLower ==
    BuiltWith("WithLowerInf") =>
        /\ first.Valid
        /\ first.LowerType = Unbounded
        /\ first.UpperType = Exclusive /\ first.Upper = args.upper

(***************************************************************************)
(* C30.  No wrap-around misclassification: on the integer instance over    *)
(* w-bit two's-complement integers, every valid range with Inclusive lower *)
(* bound, Inclusive upper bound and lower <= upper, the upper bound equal  *)
(* to the largest representable integer included, has Empty = false and    *)
(* Size >= 1, and Rewrite does not turn it into the canonical empty range. *)
(* (Specification SpecLimits.)                                             *)
(***************************************************************************)
\* a valid closed range [l, u] with l <= u: it holds at least the integer l
ClosedNonEmpty(r) ==
    /\ r.Valid
    /\ r.LowerType = Inclusive /\ r.UpperType = Inclusive
    /\ r.Lower <= r.Upper

C30_NoWrapMisclassification ==
    ClosedNonEmpty(first) =>
        /\ op = "Empty" => retErr = "" /\ retBool = FALSE
        /\ op = "Size" => retErr = "" /\ retInt >= 1
        /\ op = "Rewrite" => retRange # makeEmptyRange

\* what the code does keep: the closed ranges whose number of integers,
\* u - l + 1, fits the int and whose upper bound has a successor
C30_ClassifiedWhenSpanFits ==
    (ClosedNonEmpty(first) /\ first.Upper < MaxInt
        /\ first.Upper - first.Lower + 1 <= MaxInt) =>
        /\ op = "Empty" => retErr = "" /\ retBool = FALSE
        /\ op = "Size" => retErr = "" /\ retInt = first.Upper - first.Lower + 1
        /\ op = "Rewrite" =>
              retRange = [Lower |-> first.Lower, LowerType |-> Inclusive,
                          Upper |-> first.Upper + 1, UpperType |-> Exclusive,
                          Valid |-> TRUE]

====
